---- MODULE Spec2Model ----
(***************************************************************************)
(* A model of samples/CameraAccess/tools/sofa_to_compact_hrir.py: the      *)
(* conversion of a SOFA HRIR dataset into the compact HRIRBIN1 binary.     *)
(*                                                                         *)
(* Samples are exact rationals <<n, d>> (d > 0, lowest terms) standing for *)
(* the finite float32/float64 values of the program; angles and bin steps  *)
(* are integer-valued degrees.  The file on disk is the sequence of the    *)
(* fields written to it, each <<tag, payload>>.                            *)
(***************************************************************************)
EXTENDS Integers, Sequences, FiniteSets, TLC

\* ------------------------------------------------------------------ bounds
MaxM == 4
MaxN == 3
MaxTaps == 3
MaxRuns == 2

\* ------------------------------------------------------- program constants
MAGIC == <<72, 82, 73, 82, 66, 73, 78, 49>>
VERSION == 1
I16Scale == 32767
I16Modulus == 65536
Wrap360 == 360
EpsilonDen == 1000000000

\* ------------------------------------------------------------- arithmetic
Abs(n) == IF n < 0 THEN -n ELSE n

Min(a, b) == IF a <= b THEN a ELSE b

Max(a, b) == IF a >= b THEN a ELSE b

RECURSIVE Gcd(_, _)
Gcd(a, b) == IF b = 0 THEN a ELSE Gcd(b, a % b)

\* The rational n/d in canonical form (d # 0).
Rat(n, d) ==
  LET s == IF d < 0 THEN -1 ELSE 1
      g == Gcd(Abs(n), Abs(d))
  IN  <<(s * n) \div g, (s * d) \div g>>

RInt(k) == <<k, 1>>

RAdd(a, b) == Rat(a[1] * b[2] + b[1] * a[2], a[2] * b[2])

RSub(a, b) == Rat(a[1] * b[2] - b[1] * a[2], a[2] * b[2])

RMul(a, b) == Rat(a[1] * b[1], a[2] * b[2])

RInv(a) == Rat(a[2], a[1])

RAbs(a) == <<Abs(a[1]), a[2]>>

RLe(a, b) == a[1] * b[2] <= b[1] * a[2]

RLt(a, b) == a[1] * b[2] < b[1] * a[2]

RMax(a, b) == IF RLe(b, a) THEN a ELSE b

\* round(n / d) to the nearest integer, ties to the even one (Python's
\* round() and numpy.round), for d # 0.
RoundHalfEven(n, d) ==
  LET nn == IF d < 0 THEN -n ELSE n
      dd == Abs(d)
      q == nn \div dd
      r == nn % dd
  IN  IF 2 * r < dd THEN q
      ELSE IF 2 * r > dd THEN q + 1
      ELSE IF q % 2 = 0 THEN q ELSE q + 1

\* ndarray.astype(np.int16) of an integer-valued float: 16 bits, two's
\* complement.
AsInt16(v) == ((v + (I16Modulus \div 2)) % I16Modulus) - (I16Modulus \div 2)

\* x[:t] of Python: the first t elements, or all but the last -t.
Slice(s, t) ==
  IF t >= 0 THEN SubSeq(s, 1, Min(t, Len(s)))
  ELSE SubSeq(s, 1, Max(0, Len(s) + t))

\* np.pad(x, (0, pad), mode="constant")
PadZeros(s, pad) == s \o [k \in 1..pad |-> RInt(0)]

\* max(|x|) over a non-empty array
RECURSIVE MaxAbs(_)
MaxAbs(s) ==
  IF Len(s) = 1 THEN RAbs(s[1])
  ELSE RMax(RAbs(s[1]), MaxAbs(Tail(s)))

\* ---------------------------------------------------------- pure functions
\* np.linspace(0.0, size - 1.0, num=out_len)[k], k in 0..out_len-1
Linspace(size, out_len, k) ==
  IF out_len = 1 THEN RInt(0) ELSE Rat(k * (size - 1), out_len - 1)

\* np.interp(c, arange(size), x) for 0 <= c <= size - 1
Interp(x, c) ==
  LET j == c[1] \div c[2]
  IN  IF j >= Len(x) - 1 THEN x[Len(x)]
      ELSE RAdd(x[j + 1], RMul(RSub(c, RInt(j)), RSub(x[j + 2], x[j + 1])))

_resample_1d(x, src_sr, dst_sr) ==
  IF src_sr = dst_sr THEN x
  ELSE IF Len(x) = 0 THEN x
  ELSE LET out_len == Max(1, RoundHalfEven(Len(x) * dst_sr, src_sr))
       IN  [k \in 1..out_len |-> Interp(x, Linspace(Len(x), out_len, k - 1))]

\* lines 101-107: truncate or zero-pad both channels, the branch and the pad
\* taken from the left channel's size
TapFit(l, rr, taps) ==
  IF Len(l) >= taps THEN <<Slice(l, taps), Slice(rr, taps)>>
  ELSE <<PadZeros(l, taps - Len(l)), PadZeros(rr, taps - Len(l))>>

\* np.max raises ValueError on a zero-size array
NormalizeRaises(left, right) == Len(left) = 0 \/ Len(right) = 0

\* _normalize_pair with each channel scaled by its own peak
NormalizeEachChannel(left, right) ==
  LET one(x) ==
        LET peak == MaxAbs(x)
        IN  IF RLt(RInt(1), peak)
            THEN [k \in 1..Len(x) |-> RMul(x[k], RInv(peak))]
            ELSE x
  IN  <<one(left), one(right)>>

\* max(p, 1e-9) for p >= 0; p <= 1e-9 iff p[1] * EpsilonDen <= p[2]
FloorPeak(p) == IF p[1] <= p[2] \div EpsilonDen THEN <<1, EpsilonDen>> ELSE p

_normalize_pair(left, right) ==
  LET peak == FloorPeak(RMax(MaxAbs(left), MaxAbs(right)))
  IN  IF RLt(RInt(1), peak)
      THEN LET scale == RInv(peak)
           IN  <<[k \in 1..Len(left) |-> RMul(left[k], scale)],
                 [k \in 1..Len(right) |-> RMul(right[k], scale)]>>
      ELSE <<left, right>>

Clip(v) ==
  IF RLt(v, RInt(-1)) THEN RInt(-1)
  ELSE IF RLt(RInt(1), v) THEN RInt(1) ELSE v

\* _quantize_i16 scaling by 32768, the whole range of int16
QuantizeFullRange(x) ==
  [k \in 1..Len(x) |->
     LET c == Clip(x[k])
         v == RoundHalfEven(c[1] * (I16Scale + 1), c[2])
     IN  IF v > I16Scale THEN I16Scale ELSE v]

_quantize_i16(x) ==
  [k \in 1..Len(x) |->
     LET c == Clip(x[k])
     IN  AsInt16(RoundHalfEven(c[1] * I16Scale, c[2]))]

\* float division by a zero step raises ZeroDivisionError
BinKeyRaises(az_step, el_step) == az_step = 0 \/ el_step = 0

_bin_key(az, el, az_step, el_step) ==
  LET az_wrapped == ((az + (Wrap360 \div 2)) % Wrap360) - (Wrap360 \div 2)
  IN  <<RoundHalfEven(az_wrapped, az_step), RoundHalfEven(el, el_step)>>

\* tuple comparison of two bin keys
KeyLess(a, b) == a[1] < b[1] \/ (a[1] = b[1] /\ a[2] < b[2])

\* sorted(entries_by_bin.items()): the items of the dict (a sequence of
\* <<key, value>> in insertion order, keys distinct) in ascending key order
RECURSIVE SortedItems(_)
SortedItems(items) ==
  IF Len(items) = 0 THEN <<>>
  ELSE LET m == CHOOSE a \in 1..Len(items) :
                  \A b \in 1..Len(items) : a = b \/ KeyLess(items[a][1], items[b][1])
       IN  <<items[m]>> \o
           SortedItems([k \in 1..(Len(items) - 1) |->
                          IF k < m THEN items[k] ELSE items[k + 1]])

\* -------------------------------------------------------------- the inputs
NominalStep == 3

\* sample tables, repeated cyclically along the response
SampleTables ==
  << <<RInt(3), Rat(-1, 2), Rat(1, 4)>>,
     <<Rat(1, 2), RInt(0), Rat(-1, 4)>>,
     <<RInt(-2), RInt(2), RInt(1)>>,
     <<RInt(0), RInt(0), RInt(0)>>,
     <<RInt(1), RInt(-1), Rat(1, 2)>> >>

Response(t, n) == [k \in 1..n |-> SampleTables[t][((k - 1) % 3) + 1]]

\* a response pair that tells measurement idx from every other one
IndexedPair(idx, n) ==
  <<[k \in 1..n |-> Rat(idx, 8 * k)], [k \in 1..n |-> Rat(-idx, 16 * k)]>>

Directions == {<<0, 0>>, <<1, 0>>, <<90, 0>>, <<91, 0>>, <<1, 45>>, <<270, 0>>}

RatePairs == {<<1, 1>>, <<1, 2>>, <<2, 1>>, <<3, 2>>, <<2, 3>>}

Sofa(ps, is, pos, data, rate) ==
  [pos_shape |-> ps, ir_shape |-> is, source_pos |-> pos, ir |-> data, sr |-> rate]

Args(tsr, t, azs, els, dir) ==
  [target_sr |-> tsr, taps |-> t, az_step |-> azs, el_step |-> els, out_dir |-> dir]

\* many directions, one response per index, the default grid
GeometryInputs ==
  {<<Sofa(<<Len(pos), 3>>, <<Len(pos), 2, 1>>, pos,
          [k \in 1..Len(pos) |-> IndexedPair(k, 1)], 1),
     Args(1, 2, NominalStep, NominalStep, "out")>> :
     pos \in UNION {[1..m -> Directions] : m \in 0..MaxM}}

\* one direction, many responses, tap counts and sample-rate ratios
SignalInputs ==
  {<<Sofa(<<1, 3>>, <<1, 2, n>>, <<<<90, 0>>>>,
          <<<<Response(tl, n), Response(tr, n)>>>>, rp[1]),
     Args(rp[2], t, NominalStep, NominalStep, "out")>> :
     tl \in 1..Len(SampleTables), tr \in 1..Len(SampleTables), n \in 0..MaxN,
     t \in (-1)..MaxTaps, rp \in RatePairs}

\* the tap count and the grid steps, valid and not
ConfigInputs ==
  {<<Sofa(<<Len(pos), 3>>, <<Len(pos), 2, 2>>, pos,
          [k \in 1..Len(pos) |-> IndexedPair(k, 2)], 1),
     Args(1, t, azs, els, dir)>> :
     pos \in UNION {[1..m -> {<<0, 0>>, <<91, 45>>}] : m \in 0..2},
     t \in {-1, 0, 2}, azs \in {-NominalStep, 0, NominalStep},
     els \in {-NominalStep, 0, NominalStep}, dir \in {"", "out"}}

PosShapes(m) == {<<m>>, <<m, 1>>, <<m, 2>>, <<m, 3>>, <<m, 3, 1>>}

IrShapes(m, n) == {<<m, 2>>, <<m, 1, n>>, <<m, 2, n>>, <<m, 3, n>>, <<m, 2, n, 1>>}

\* the shapes of the two arrays, valid and not
ShapeInputs ==
  UNION {{<<Sofa(ps, is, [k \in 1..m |-> <<90 * k, 0>>],
                 [k \in 1..m |-> IndexedPair(k, n)], 1),
            Args(1, 2, NominalStep, NominalStep, dir)>> :
            ps \in PosShapes(m), is \in IrShapes(m, n), dir \in {"", "out"}} :
         m \in 0..1, n \in 0..1}

Inputs == GeometryInputs \cup SignalInputs \cup ConfigInputs \cup ShapeInputs

\* the inputs convert is called on more than once
RepeatInputs == ConfigInputs \cup ShapeInputs

\* ------------------------------------------------------------------- state
VARIABLES
  sofa,             \* the dataset in the input file
  args,             \* convert's parameters
  fs,               \* the output path: its directory, the file, its content
  pc,               \* the statement convert is at
  run,              \* the number of the invocation
  loaded,           \* source_pos, ir and sr have been read
  i,                \* the binning loop's index
  entries_by_bin,   \* the dict, as its items in insertion order
  todo,             \* the items of sorted(...) the second loop has yet to take
  cur,              \* the item the second loop is at
  l,                \* the left channel being processed
  rr,               \* the right channel being processed
  compact_entries,  \* the finished entries
  wi,               \* the writing loop's index
  err,              \* the exception convert raised
  result,           \* the record convert returned
  fs_at_start,      \* fs when this invocation began
  outputs           \* the file content each completed invocation left

vars == <<sofa, args, fs, pc, run, loaded, i, entries_by_bin, todo, cur, l, rr,
          compact_entries, wi, err, result, fs_at_start, outputs>>

inputs == <<sofa, args>>

locals == <<loaded, i, entries_by_bin, todo, cur, l, rr, compact_entries, wi>>

NoError == [kind |-> "none", array |-> "", shape |-> <<>>]

Error(k) == [kind |-> k, array |-> "", shape |-> <<>>]

NoItem == <<<<0, 0>>, <<0, 0, <<>>, <<>>>>>>

EmptyFs == [dir |-> FALSE, exists |-> FALSE, bytes |-> <<>>]

InitWith(S) ==
  /\ \E in \in S : sofa = in[1] /\ args = in[2]
  /\ fs = EmptyFs
  /\ pc = "read"
  /\ run = 1
  /\ loaded = FALSE
  /\ i = 0
  /\ entries_by_bin = <<>>
  /\ todo = <<>>
  /\ cur = NoItem
  /\ l = <<>>
  /\ rr = <<>>
  /\ compact_entries = <<>>
  /\ wi = 0
  /\ err = NoError
  /\ result = <<>>
  /\ fs_at_start = EmptyFs
  /\ outputs = <<>>

Init == InitWith(Inputs)

InitRepeat == InitWith(RepeatInputs)

Raise(e) == pc' = "failed" /\ err' = e

\* lines 74-77: read the three datasets
Read ==
  /\ pc = "read"
  /\ \/ loaded' = TRUE /\ pc' = "validate" /\ err' = err
     \/ loaded' = loaded /\ Raise(Error("OSError"))
  /\ UNCHANGED <<inputs, fs, run, i, entries_by_bin, todo, cur, l, rr,
                 compact_entries, wi, result, fs_at_start, outputs>>

\* ShapeError with the channel check off by one
ShapeErrorLax(d) ==
  IF Len(d.pos_shape) # 2 \/ d.pos_shape[2] < 2
  THEN [kind |-> "ValueError", array |-> "SourcePosition", shape |-> d.pos_shape]
  ELSE IF Len(d.ir_shape) # 3 \/ d.ir_shape[2] < 1
  THEN [kind |-> "ValueError", array |-> "Data.IR", shape |-> d.ir_shape]
  ELSE NoError

\* lines 79-82: the exception the shape checks raise, NoError when they pass
ShapeError(d) ==
  IF Len(d.pos_shape) # 2 \/ d.pos_shape[2] < 2
  THEN [kind |-> "ValueError", array |-> "SourcePosition", shape |-> d.pos_shape]
  ELSE IF Len(d.ir_shape) # 3 \/ d.ir_shape[2] < 2
  THEN [kind |-> "ValueError", array |-> "Data.IR", shape |-> d.ir_shape]
  ELSE NoError

\* lines 79-85
Validate ==
  /\ pc = "validate"
  /\ IF ShapeError(sofa) # NoError
     THEN Raise(ShapeError(sofa)) /\ UNCHANGED <<i, entries_by_bin>>
     ELSE pc' = "bin" /\ i' = 0 /\ entries_by_bin' = <<>> /\ err' = err
  /\ UNCHANGED <<inputs, fs, run, loaded, todo, cur, l, rr, compact_entries, wi,
                 result, fs_at_start, outputs>>

HasKey(items, key) == \E k \in 1..Len(items) : items[k][1] = key

\* InsertIfAbsent without the membership test: a later measurement replaces
\* the value of its bin
InsertOverwrite(items, key, value) ==
  IF HasKey(items, key)
  THEN [k \in 1..Len(items) |->
          IF items[k][1] = key THEN <<key, value>> ELSE items[k]]
  ELSE Append(items, <<key, value>>)

\* lines 91-95: insert unless the key is present
InsertIfAbsent(items, key, value) ==
  IF HasKey(items, key) THEN items ELSE Append(items, <<key, value>>)

\* lines 87-95: one iteration of the binning loop
BinStep ==
  /\ pc = "bin"
  /\ i < sofa.ir_shape[1]
  /\ IF BinKeyRaises(args.az_step, args.el_step)
     THEN Raise(Error("ZeroDivisionError")) /\ UNCHANGED <<i, entries_by_bin>>
     ELSE LET az == sofa.source_pos[i + 1][1]
              el == sofa.source_pos[i + 1][2]
              key == _bin_key(az, el, args.az_step, args.el_step)
              left == sofa.ir[i + 1][1]
              right == sofa.ir[i + 1][2]
          IN  /\ entries_by_bin' =
                   InsertIfAbsent(entries_by_bin, key, <<az, el, left, right>>)
              /\ i' = i + 1
              /\ UNCHANGED <<pc, err>>
  /\ UNCHANGED <<inputs, fs, run, loaded, todo, cur, l, rr, compact_entries, wi,
                 result, fs_at_start, outputs>>

\* VisitOrder without sorted(): the dict's own iteration order
VisitInsertionOrder(items) == items

\* the order the second loop visits the bins in (line 98)
VisitOrder(items) == SortedItems(items)

\* lines 97-98: the first loop is over; sort the items
BinDone ==
  /\ pc = "bin"
  /\ i = sofa.ir_shape[1]
  /\ compact_entries' = <<>>
  /\ todo' = VisitOrder(entries_by_bin)
  /\ pc' = "resample"
  /\ UNCHANGED <<inputs, fs, run, loaded, i, entries_by_bin, cur, l, rr, wi, err,
                 result, fs_at_start, outputs>>

\* lines 98-100: take the next item and resample its two channels
Resample ==
  /\ pc = "resample"
  /\ todo # <<>>
  /\ cur' = Head(todo)
  /\ todo' = Tail(todo)
  /\ l' = _resample_1d(Head(todo)[2][3], sofa.sr, args.target_sr)
  /\ rr' = _resample_1d(Head(todo)[2][4], sofa.sr, args.target_sr)
  /\ pc' = "fit"
  /\ UNCHANGED <<inputs, fs, run, loaded, i, entries_by_bin, compact_entries, wi,
                 err, result, fs_at_start, outputs>>

\* lines 101-107
Fit ==
  /\ pc = "fit"
  /\ l' = TapFit(l, rr, args.taps)[1]
  /\ rr' = TapFit(l, rr, args.taps)[2]
  /\ pc' = "normalize"
  /\ UNCHANGED <<inputs, fs, run, loaded, i, entries_by_bin, todo, cur,
                 compact_entries, wi, err, result, fs_at_start, outputs>>

\* line 108
Normalize ==
  /\ pc = "normalize"
  /\ IF NormalizeRaises(l, rr)
     THEN Raise(Error("ValueError")) /\ UNCHANGED <<l, rr>>
     ELSE /\ l' = _normalize_pair(l, rr)[1]
          /\ rr' = _normalize_pair(l, rr)[2]
          /\ pc' = "quantize"
          /\ err' = err
  /\ UNCHANGED <<inputs, fs, run, loaded, i, entries_by_bin, todo, cur,
                 compact_entries, wi, result, fs_at_start, outputs>>

\* line 109
Quantize ==
  /\ pc = "quantize"
  /\ compact_entries' =
       Append(compact_entries,
              <<cur[2][1], cur[2][2], _quantize_i16(l), _quantize_i16(rr)>>)
  /\ pc' = "resample"
  /\ UNCHANGED <<inputs, fs, run, loaded, i, entries_by_bin, todo, cur, l, rr, wi,
                 err, result, fs_at_start, outputs>>

\* lines 111-113: the second loop is over; create the output directory
MakeDirs ==
  /\ pc = "resample"
  /\ todo = <<>>
  /\ \/ /\ fs' = IF args.out_dir = "" THEN fs ELSE [fs EXCEPT !.dir = TRUE]
        /\ pc' = "open"
        /\ err' = err
     \/ /\ args.out_dir # ""
        /\ fs' = fs
        /\ Raise(Error("OSError"))
  /\ UNCHANGED <<inputs, run, locals, result, fs_at_start, outputs>>

\* OpenForWrite in append mode: what the file holds stays
OpenForAppend(f) == [f EXCEPT !.exists = TRUE]

\* open(out_path, "wb"): the file exists and is empty
OpenForWrite(f) == [f EXCEPT !.exists = TRUE, !.bytes = <<>>]

\* line 114
Open ==
  /\ pc = "open"
  /\ \/ fs' = OpenForWrite(fs) /\ pc' = "header" /\ err' = err
     \/ fs' = fs /\ Raise(Error("OSError"))
  /\ UNCHANGED <<inputs, run, locals, result, fs_at_start, outputs>>

\* struct.pack("<Iiii", ...): the header's four fields
PackHeader(version, sample_rate, tap_count, entry_count) ==
  <<"header", <<version, sample_rate, tap_count, entry_count>>>>

\* HeaderFields with the number of measurements as the entry count
HeaderFieldsOfMeasurements ==
  << <<"magic", MAGIC>>,
     PackHeader(VERSION, args.target_sr, args.taps, sofa.ir_shape[1]) >>

\* lines 115-116: the fields of the header, in the order they are written
HeaderFields ==
  << <<"magic", MAGIC>>,
     PackHeader(VERSION, args.target_sr, args.taps, Len(compact_entries)) >>

\* lines 118-120: the fields of one entry, in the order they are written
EntryFields(e) == << <<"position", <<e[1], e[2]>>>>, <<"i16", e[3]>>, <<"i16", e[4]>> >>

\* lines 115-116; a write may raise, what was written before it stays
WriteHeader ==
  /\ pc = "header"
  /\ \E k \in 0..Len(HeaderFields) :
       /\ fs' = [fs EXCEPT !.bytes = @ \o SubSeq(HeaderFields, 1, k)]
       /\ IF k = Len(HeaderFields)
          THEN pc' = "entries" /\ wi' = 0 /\ err' = err
          ELSE Raise(Error("OSError")) /\ wi' = wi
  /\ UNCHANGED <<inputs, run, loaded, i, entries_by_bin, todo, cur, l, rr,
                 compact_entries, result, fs_at_start, outputs>>

\* lines 117-120: one iteration of the writing loop
WriteEntry ==
  /\ pc = "entries"
  /\ wi < Len(compact_entries)
  /\ LET fields == EntryFields(compact_entries[wi + 1])
     IN  \E k \in 0..Len(fields) :
           /\ fs' = [fs EXCEPT !.bytes = @ \o SubSeq(fields, 1, k)]
           /\ IF k = Len(fields)
              THEN wi' = wi + 1 /\ UNCHANGED <<pc, err>>
              ELSE Raise(Error("OSError")) /\ wi' = wi
  /\ UNCHANGED <<inputs, run, loaded, i, entries_by_bin, todo, cur, l, rr,
                 compact_entries, result, fs_at_start, outputs>>

\* the size in bytes of one field of the file
FieldBytes(f) ==
  IF f[1] = "magic" THEN 8
  ELSE IF f[1] = "header" THEN 16
  ELSE IF f[1] = "position" THEN 8
  ELSE 2 * Len(f[2])

RECURSIVE GetSize(_)
GetSize(bytes) ==
  IF bytes = <<>> THEN 0 ELSE FieldBytes(Head(bytes)) + GetSize(Tail(bytes))

\* lines 122-133: the file is closed and the summary returned
Return ==
  /\ pc = "entries"
  /\ wi = Len(compact_entries)
  /\ result' = << [source_sample_rate_hz |-> sofa.sr,
                   target_sample_rate_hz |-> args.target_sr,
                   source_shape_data_ir |-> sofa.ir_shape,
                   tap_count |-> args.taps,
                   entry_count |-> Len(compact_entries),
                   az_step_deg |-> args.az_step,
                   el_step_deg |-> args.el_step,
                   output_bytes |-> GetSize(fs.bytes)] >>
  /\ outputs' = Append(outputs, fs.bytes)
  /\ pc' = "done"
  /\ UNCHANGED <<inputs, fs, run, locals, err, fs_at_start>>

\* convert is called again with the same arguments; nothing but the file
\* system is left of the call before
Reinvoke ==
  /\ pc \in {"done", "failed"}
  /\ run < MaxRuns
  /\ run' = run + 1
  /\ pc' = "read"
  /\ loaded' = FALSE
  /\ i' = 0
  /\ entries_by_bin' = <<>>
  /\ todo' = <<>>
  /\ cur' = NoItem
  /\ l' = <<>>
  /\ rr' = <<>>
  /\ compact_entries' = <<>>
  /\ wi' = 0
  /\ err' = NoError
  /\ result' = <<>>
  /\ fs_at_start' = fs
  /\ UNCHANGED <<inputs, fs, outputs>>

Next ==
  \/ Read
  \/ Validate
  \/ BinStep
  \/ BinDone
  \/ Resample
  \/ Fit
  \/ Normalize
  \/ Quantize
  \/ MakeDirs
  \/ Open
  \/ WriteHeader
  \/ WriteEntry
  \/ Return

NextRepeat == Next \/ Reinvoke

\* one invocation of convert, on any of the inputs
Spec == Init /\ [][Next]_vars

\* up to MaxRuns invocations on the same input, each over the file system
\* the one before left
SpecRepeat == InitRepeat /\ [][NextRepeat]_vars

\* ------------------------------------------------------ reading the result
\* the number of measurements the loops run over
M == sofa.ir_shape[1]

\* the bin key of measurement k (1-based)
KeyOf(k) ==
  _bin_key(sofa.source_pos[k][1], sofa.source_pos[k][2], args.az_step, args.el_step)

\* the lowest index among the first n measurements that maps to key
FirstIndex(key, n) ==
  CHOOSE k \in 1..n : KeyOf(k) = key /\ \A j \in 1..(k - 1) : KeyOf(j) # key

\* what the pipeline makes of measurement k alone
EntryOf(k) ==
  LET fit == TapFit(_resample_1d(sofa.ir[k][1], sofa.sr, args.target_sr),
                    _resample_1d(sofa.ir[k][2], sofa.sr, args.target_sr),
                    args.taps)
      nrm == _normalize_pair(fit[1], fit[2])
  IN  <<sofa.source_pos[k][1], sofa.source_pos[k][2],
        _quantize_i16(nrm[1]), _quantize_i16(nrm[2])>>

\* the entry records a loader finds after the two header fields
FileEntries(bytes) ==
  [e \in 1..((Len(bytes) - 2) \div 3) |->
     <<bytes[3 * e][2][1], bytes[3 * e][2][2], bytes[3 * e + 1][2], bytes[3 * e + 2][2]>>]

EntryKey(e) == _bin_key(e[1], e[2], args.az_step, args.el_step)

\* the part of the file system that is the output file
FilePart(f) == <<f.exists, f.bytes>>

\* ------------------------------------------------------------------ claims

\* C1. Dedup first-wins: once the first i measurements are binned, the dict
\* holds exactly one item for every bin key among them, and the item carries
\* the azimuth, elevation and samples of the lowest-index measurement with
\* that key; in the file of a completed run every bin key has exactly one
\* entry, and it is the entry made from that lowest-index measurement.
C1_DedupFirstWins ==
  /\ \A k \in 1..i :
       LET f == FirstIndex(KeyOf(k), i)
       IN  /\ Cardinality({n \in 1..Len(entries_by_bin) :
                             entries_by_bin[n][1] = KeyOf(k)}) = 1
           /\ \E n \in 1..Len(entries_by_bin) :
                entries_by_bin[n] =
                  <<KeyOf(k), <<sofa.source_pos[f][1], sofa.source_pos[f][2],
                                sofa.ir[f][1], sofa.ir[f][2]>>>>
  /\ pc = "done" =>
       \A k \in 1..M :
         LET hits == {e \in DOMAIN FileEntries(fs.bytes) :
                        EntryKey(FileEntries(fs.bytes)[e]) = KeyOf(k)}
         IN  /\ Cardinality(hits) = 1
             /\ \A e \in hits :
                  FileEntries(fs.bytes)[e] = EntryOf(FirstIndex(KeyOf(k), M))

\* the example of the claim: azimuths 0, 1, 90, 91 at elevation 0, step 3,
\* give two entries, from the first and the third measurement
C1_Witness ==
  /\ pc = "done"
  /\ sofa.source_pos = <<<<0, 0>>, <<1, 0>>, <<90, 0>>, <<91, 0>>>>
  /\ args.az_step = 3
  /\ FileEntries(fs.bytes) = <<EntryOf(1), EntryOf(3)>>
  /\ EntryOf(1) # EntryOf(2)
  /\ EntryOf(3) # EntryOf(4)

\* C2 (as claimed). No partial output: the output file is created or changed
\* only once every bin has been processed; a run that completes leaves the
\* header and exactly entry_count entries of taps samples a channel, and a
\* run that fails leaves the output file as it found it.
C2_NoPartialOutput ==
  /\ FilePart(fs) # FilePart(fs_at_start) =>
       /\ pc \in {"header", "entries", "done", "failed"}
       /\ todo = <<>>
       /\ Len(compact_entries) = Len(entries_by_bin)
  /\ pc = "failed" => FilePart(fs) = FilePart(fs_at_start)
  /\ pc = "done" =>
       /\ fs.exists
       /\ Len(fs.bytes) = 2 + 3 * Len(compact_entries)
       /\ fs.bytes[1] = <<"magic", MAGIC>>
       /\ fs.bytes[2][1] = "header"
       /\ fs.bytes[2][2][4] = Len(compact_entries)
       /\ \A e \in DOMAIN FileEntries(fs.bytes) :
            /\ Len(FileEntries(fs.bytes)[e][3]) = fs.bytes[2][2][3]
            /\ Len(FileEntries(fs.bytes)[e][4]) = fs.bytes[2][2][3]

\* What holds of the output file: it is created or changed only once every
\* bin has been processed, and only a failure of a write leaves it changed.
OutputOnlyAfterProcessing ==
  FilePart(fs) # FilePart(fs_at_start) =>
    /\ pc \in {"header", "entries", "done", "failed"}
    /\ todo = <<>>
    /\ Len(compact_entries) = Len(entries_by_bin)
    /\ pc = "failed" => err.kind = "OSError"

\* C3 (as claimed). Configuration rejection: with a tap count or a grid step
\* that is not positive no run completes, none bins a measurement or
\* processes an entry, and none creates or changes the output file.
C3_ConfigurationRejected ==
  (args.taps <= 0 \/ args.az_step <= 0 \/ args.el_step <= 0) =>
    /\ pc # "done"
    /\ i = 0
    /\ entries_by_bin = <<>>
    /\ compact_entries = <<>>
    /\ FilePart(fs) = FilePart(fs_at_start)

\* C4. Shape rejection: once the arrays are read and checked, a position
\* array with fewer than two columns, or a response array that is not
\* three-dimensional or has fewer than two channels, has made the run fail
\* with an error that names an offending array and its shape; nothing was
\* binned or converted, and the file system is as the run found it.
C4_ShapeRejected ==
  LET pos_bad == Len(sofa.pos_shape) < 2 \/ sofa.pos_shape[2] < 2
      ir_bad == Len(sofa.ir_shape) # 3 \/ sofa.ir_shape[2] < 2
  IN  (loaded /\ pc # "validate" /\ (pos_bad \/ ir_bad)) =>
        /\ pc = "failed"
        /\ err.kind = "ValueError"
        /\ \/ /\ err.array = "SourcePosition"
              /\ err.shape = sofa.pos_shape
              /\ (pos_bad \/ Len(sofa.pos_shape) # 2)
           \/ /\ err.array = "Data.IR"
              /\ err.shape = sofa.ir_shape
              /\ ir_bad
        /\ i = 0
        /\ entries_by_bin = <<>>
        /\ todo = <<>>
        /\ compact_entries = <<>>
        /\ fs = fs_at_start

C4_Witness ==
  /\ pc = "failed"
  /\ Len(sofa.pos_shape) = 2
  /\ sofa.pos_shape[2] = 3
  /\ Len(sofa.ir_shape) = 3
  /\ sofa.ir_shape[1] = 1
  /\ sofa.ir_shape[2] = 1
  /\ err.array = "Data.IR"
  /\ err.shape = sofa.ir_shape

\* C5. Sort order: the finished entries, and the entries of the file of a
\* completed run, are in ascending bin-key order (az_bin, then el_bin).
C5_SortOrder ==
  /\ \A a, b \in DOMAIN compact_entries :
       a < b => KeyLess(EntryKey(compact_entries[a]), EntryKey(compact_entries[b]))
  /\ pc = "done" =>
       \A a, b \in DOMAIN FileEntries(fs.bytes) :
         a < b => KeyLess(EntryKey(FileEntries(fs.bytes)[a]),
                          EntryKey(FileEntries(fs.bytes)[b]))

\* a file of three entries whose bins were first met in another order, with
\* an az_bin tie broken by el_bin
C5_Witness ==
  /\ pc = "done"
  /\ Len(FileEntries(fs.bytes)) = 3
  /\ sofa.source_pos = <<<<90, 0>>, <<1, 45>>, <<0, 0>>>>
  /\ [e \in 1..3 |-> EntryKey(FileEntries(fs.bytes)[e])] = <<<<0, 0>>, <<0, 15>>, <<30, 0>>>>

\* C6. Header round-trip: the file of a completed run starts with the magic
\* tag and a header of version 1, the requested sample rate, the requested
\* tap count and an entry count that is the number of distinct bin keys of
\* the measurements, the number of entry records after the header and the
\* entry_count of the returned record.
C6_HeaderRoundTrip ==
  pc = "done" =>
    /\ fs.bytes[1] = <<"magic", MAGIC>>
    /\ fs.bytes[2][1] = "header"
    /\ fs.bytes[2][2][1] = 1
    /\ fs.bytes[2][2][2] = args.target_sr
    /\ fs.bytes[2][2][3] = args.taps
    /\ fs.bytes[2][2][4] = Cardinality({KeyOf(k) : k \in 1..M})
    /\ Len(fs.bytes) = 2 + 3 * fs.bytes[2][2][4]
    /\ \A n \in 3..Len(fs.bytes) :
         fs.bytes[n][1] = (IF n % 3 = 0 THEN "position" ELSE "i16")
    /\ result[1].entry_count = fs.bytes[2][2][4]

\* a completed run over four measurements in two bins
C6_Witness ==
  /\ pc = "done"
  /\ M = 4
  /\ fs.bytes[2][2][4] = 2
  /\ Len(fs.bytes) = 8

\* C7 (as claimed). Tap-fit length: each channel of every entry written to
\* the file has exactly taps samples.
C7_TapFitLength ==
  \A n \in DOMAIN fs.bytes :
    fs.bytes[n][1] = "i16" => Len(fs.bytes[n][2]) = args.taps

\* What holds of the tap fitter: with a positive tap count every channel,
\* fitted, finished or written, has taps samples, the first of them the
\* resampled ones and the rest zeros.
TapFitPositiveTaps ==
  args.taps > 0 =>
    /\ \A e \in DOMAIN compact_entries :
         Len(compact_entries[e][3]) = args.taps /\ Len(compact_entries[e][4]) = args.taps
    /\ \A n \in DOMAIN fs.bytes :
         fs.bytes[n][1] = "i16" => Len(fs.bytes[n][2]) = args.taps
    /\ pc = "normalize" =>
         LET rl == _resample_1d(cur[2][3], sofa.sr, args.target_sr)
             rx == _resample_1d(cur[2][4], sofa.sr, args.target_sr)
         IN  /\ Len(l) = args.taps
             /\ Len(rr) = args.taps
             /\ \A k \in 1..args.taps :
                  /\ l[k] = (IF k <= Len(rl) THEN rl[k] ELSE RInt(0))
                  /\ rr[k] = (IF k <= Len(rx) THEN rx[k] ELSE RInt(0))

\* C8. Quantization bounds: every 16-bit sample of a finished entry and of
\* the file lies in -32767..32767, and so does the quantizer's output for
\* the samples of the dataset as they are.
C8_QuantizationBounds ==
  /\ \A e \in DOMAIN compact_entries : \A c \in {3, 4} :
       \A k \in DOMAIN compact_entries[e][c] :
         compact_entries[e][c][k] \in (-32767)..32767
  /\ \A n \in DOMAIN fs.bytes :
       fs.bytes[n][1] = "i16" =>
         \A k \in DOMAIN fs.bytes[n][2] : fs.bytes[n][2][k] \in (-32767)..32767
  /\ \A m \in DOMAIN sofa.ir : \A c \in {1, 2} :
       \A k \in DOMAIN sofa.ir[m][c] :
         _quantize_i16(sofa.ir[m][c])[k] \in (-32767)..32767

\* a written entry that holds both extremes, from samples of magnitude
\* above one
C8_Witness ==
  /\ pc = "done"
  /\ \E m \in DOMAIN sofa.ir : \E k \in DOMAIN sofa.ir[m][1] :
       RLt(RInt(1), RAbs(sofa.ir[m][1][k]))
  /\ \E n \in DOMAIN fs.bytes :
       /\ fs.bytes[n][1] = "i16"
       /\ \E k \in DOMAIN fs.bytes[n][2] : fs.bytes[n][2][k] = -32767
       /\ \E k \in DOMAIN fs.bytes[n][2] : fs.bytes[n][2][k] = 32767

\* the joint peak of a fitted pair
JointPeak(a, b) == RMax(MaxAbs(a), MaxAbs(b))

\* C9. Joint normalization: after the normalizer, with f the tap-fitted pair
\* of the bin: when the joint peak of f exceeds one, each sample of either
\* channel times that peak is the fitted sample, the peaks of the channels
\* keep their ratio and the joint peak is one; otherwise both channels are
\* the fitted ones.
C9_JointNormalization ==
  pc = "quantize" =>
    LET f == TapFit(_resample_1d(cur[2][3], sofa.sr, args.target_sr),
                    _resample_1d(cur[2][4], sofa.sr, args.target_sr), args.taps)
        peak == JointPeak(f[1], f[2])
    IN  IF RLt(RInt(1), peak)
        THEN /\ Len(l) = Len(f[1]) /\ Len(rr) = Len(f[2])
             /\ \A k \in DOMAIN l : RMul(l[k], peak) = f[1][k]
             /\ \A k \in DOMAIN rr : RMul(rr[k], peak) = f[2][k]
             /\ RMul(MaxAbs(l), MaxAbs(f[2])) = RMul(MaxAbs(f[1]), MaxAbs(rr))
             /\ JointPeak(l, rr) = RInt(1)
        ELSE l = f[1] /\ rr = f[2]

\* a pair scaled down, whose channels have different peaks, both above zero
\* and one of them below one
C9_Witness ==
  /\ pc = "quantize"
  /\ JointPeak(l, rr) = RInt(1)
  /\ l # cur[2][3]
  /\ MaxAbs(l) # MaxAbs(rr)
  /\ RLt(RInt(0), MaxAbs(rr))
  /\ RLt(MaxAbs(cur[2][4]), RInt(1))

\* a pair that is left as it is
C9_WitnessQuiet ==
  /\ pc = "quantize"
  /\ l = cur[2][3]
  /\ RLt(RInt(0), MaxAbs(l))
  /\ RLt(JointPeak(l, rr), RInt(1))

\* C10. Determinism: all completed invocations on the same dataset and
\* parameters leave the same file content, whatever the file system held
\* when they began.
C10_Determinism ==
  \A a, b \in DOMAIN outputs : outputs[a] = outputs[b]

\* two completed invocations, the second over the file of the first
C10_Witness ==
  /\ pc = "done"
  /\ run = 2
  /\ Len(outputs) = 2
  /\ Len(outputs[2]) > 2
  /\ fs_at_start.exists
  /\ fs_at_start.bytes = outputs[1]
====
